---- MODULE Spec2Model ----
(***************************************************************************)
(* Model of common/utils/dump_py_code.py: the serializer that prints a     *)
(* rasr.CommonRasrParameters / rasr.RasrConfig tree as Python assignment   *)
(* statements.                                                             *)
(*                                                                         *)
(* Python values are records with a field "kind" (the runtime type).  A    *)
(* str used as a key is a sequence of one-character strings, so that       *)
(* str.replace and the attribute-name test work on its characters.  A      *)
(* left-hand side (the f-string `lhs`) is the sequence of its segments:    *)
(* the caller's name, then one segment per ".attr" or "['key']" appended.  *)
(* A printed line is a record [lhs, rhs, at]; `at` is a history field      *)
(* that records which input node the line was printed for (the positions   *)
(* of the node on the way down from the root); it is not part of the text. *)
(***************************************************************************)
EXTENDS Integers, Sequences, FiniteSets, TLC

VARIABLES
    \* one whole call of a dump function
    obj, fn, lhsArg, pic, sink, pc, err,
    \* dump_py_code calls run statement by statement, and the files they print to
    calls, sinks,
    \* GetRelevantEpochsFromTrainingJob: its inputs, its output file, its outcome
    scores, n_best, chkpts, output, jobpc,
    \* FHDecoder.recognize_count_lm: its active calls and the jobs it created
    rstack, ncalls, searchJobs, rpc

dumpVars == <<obj, fn, lhsArg, pic, sink, pc, err>>
stepVars == <<calls, sinks>>
epochVars == <<scores, n_best, chkpts, output, jobpc>>
recogVars == <<rstack, ncalls, searchJobs, rpc>>

vars == <<dumpVars, stepVars, epochVars, recogVars>>

\* the parts of the state that a specification does not use stay as they are
DumpIdle ==
    /\ obj = [kind |-> "NoneType"]
    /\ fn = "none"
    /\ lhsArg = <<>>
    /\ pic = FALSE
    /\ sink = <<>>
    /\ pc = "idle"
    /\ err = <<>>
StepIdle == calls = <<>> /\ sinks = <<>>
EpochIdle ==
    /\ scores = <<>>
    /\ n_best = 0
    /\ chkpts = {}
    /\ output = <<>>
    /\ jobpc = "idle"
RecogIdle ==
    /\ rstack = <<>>
    /\ ncalls = 0
    /\ searchJobs = 0
    /\ rpc = "idle"

-----------------------------------------------------------------------------
(* Bounds of the explored inputs *)

MaxChildren == 2    \* children per enumerated RasrConfig node
MaxAttrs == 2       \* attributes per enumerated CommonRasrParameters
MaxItems == 2       \* entries per enumerated dict attribute

-----------------------------------------------------------------------------
(* Python values *)

PyNone == [kind |-> "NoneType"]
PyInt(i) == [kind |-> "int", val |-> i]
PyFloat(tenths) == [kind |-> "float", val |-> tenths]
PyStr(s) == [kind |-> "str", val |-> s]
PyBool(b) == [kind |-> "bool", val |-> b]
MultiPath(p) == [kind |-> "MultiPath", val |-> p]
PyObject(cls) == [kind |-> "object", val |-> cls]
PyList == [kind |-> "list", val |-> "[]"]

Item(k, v) == [k |-> k, v |-> v]

PyDict(items) == [kind |-> "dict", items |-> items]

CommonRasrParameters(attrs) == [kind |-> "CommonRasrParameters", items |-> attrs]

RasrConfig(value, prolog, prolog_hash, epilog, epilog_hash, children) ==
    [kind |-> "RasrConfig", value |-> value,
     prolog |-> prolog, prolog_hash |-> prolog_hash,
     epilog |-> epilog, epilog_hash |-> epilog_hash,
     items |-> children]

\* isinstance(v, types), types a set of kinds (bool is a subclass of int)
IsInstance(v, types) ==
    \/ v.kind \in types
    \/ v.kind = "bool" /\ "int" \in types

\* bool(v) of a primitive: None, "", 0, 0.0 and False are falsy
Truthy(v) ==
    CASE v.kind = "NoneType" -> FALSE
      [] v.kind = "str" -> v.val # ""
      [] v.kind = "int" -> v.val # 0
      [] v.kind = "float" -> v.val # 0
      [] v.kind = "bool" -> v.val
      [] OTHER -> TRUE

_valid_primitive_types == {"NoneType", "int", "float", "str", "bool", "MultiPath"}

-----------------------------------------------------------------------------
(* Literals *)

\* repr() of a float given in tenths: 5 is 0.5, 10 is 1.0
FloatRepr(t) == ToString(t \div 10) \o "." \o ToString(t % 10)

\* py_repr(obj): source text that evaluates to obj again
py_repr(v) ==
    CASE v.kind = "NoneType" -> "None"
      [] v.kind = "bool" -> IF v.val THEN "True" ELSE "False"
      [] v.kind = "int" -> ToString(v.val)
      [] v.kind = "float" -> FloatRepr(v.val)
      [] v.kind = "str" -> "'" \o v.val \o "'"
      [] v.kind = "MultiPath" -> "i6_core.util.MultiPath('" \o v.val \o "')"
      [] OTHER -> "<" \o v.kind \o ">"

\* The built-in repr() behind {v!r}: as py_repr on the built-in types; a
\* MultiPath defines no __repr__ and gets the default object form.
Repr(v) ==
    CASE v.kind = "NoneType" -> "None"
      [] v.kind = "bool" -> IF v.val THEN "True" ELSE "False"
      [] v.kind = "int" -> ToString(v.val)
      [] v.kind = "float" -> FloatRepr(v.val)
      [] v.kind = "str" -> "'" \o v.val \o "'"
      [] OTHER -> "<" \o v.kind \o " object>"

-----------------------------------------------------------------------------
(* Attribute names *)

Letters ==
    {"a", "b", "c", "d", "e", "f", "g", "h", "i", "j", "k", "l", "m", "n", "o", "p", "q",
     "r", "s", "t", "u", "v", "w", "x", "y", "z",
     "A", "B", "C", "D", "E", "F", "G", "H", "I", "J", "K", "L", "M", "N", "O", "P", "Q",
     "R", "S", "T", "U", "V", "W", "X", "Y", "Z"}
Digits == {"0", "1", "2", "3", "4", "5", "6", "7", "8", "9"}
\* keyword.kwlist, the two-letter ones
Keywords == {<<"a", "s">>, <<"i", "f">>, <<"i", "n">>, <<"i", "s">>, <<"o", "r">>}

\* k.replace("-", "_")
Replace(k, old, new) == [i \in 1..Len(k) |-> IF k[i] = old THEN new ELSE k[i]]

is_valid_python_attrib_name(name) ==
    /\ Len(name) > 0
    /\ name[1] \in Letters \cup {"_"}
    /\ \A i \in 1..Len(name) : name[i] \in Letters \cup Digits \cup {"_"}
    /\ name \notin Keywords

-----------------------------------------------------------------------------
(* Left-hand sides, printed lines and raised errors *)

Name(n) == [seg |-> "name", k |-> n]      \* the caller's target expression
Attr(n) == [seg |-> "attr", k |-> n]      \* f"{lhs}.{n}"
Key(k) == [seg |-> "item", k |-> k]       \* f"{lhs}[{k!r}]"

Literal(text) == [form |-> "literal", text |-> text, kwargs |-> <<>>]
CrpCall == [form |-> "rasr.CommonRasrParameters", text |-> "", kwargs |-> <<>>]
ConfigCall(kwargs) == [form |-> "rasr.RasrConfig", text |-> "", kwargs |-> kwargs]
Kwarg(k, text) == [k |-> k, v |-> text]

\* print(f"{lhs} = {rhs}", file=file), for the input node at position `at`
Stmt(lhs, rhs, at) == [lhs |-> lhs, rhs |-> rhs, at |-> at]

NoErr == [exc |-> "none", lhs |-> <<>>, type |-> "", at |-> <<>>]

\* (mutation of TypeError: the message names the last segment only)
TypeErrorKeyOnly(lhs, v, at) ==
    [exc |-> "TypeError", lhs |-> <<lhs[Len(lhs)]>>, type |-> v.kind, at |-> at]

\* raise TypeError(f"{lhs} is type {type(v)}")
TypeError(lhs, v, at) == [exc |-> "TypeError", lhs |-> lhs, type |-> v.kind, at |-> at]

\* a failed `assert cond`: the statement gives no message, so the exception
\* carries neither a target expression nor a type
AssertionError(at) == [exc |-> "AssertionError", lhs |-> <<>>, type |-> "", at |-> at]

\* What a call did: the lines it printed, then the error it raised (if any)
Ok(out) == [out |-> out, err |-> NoErr]
Raise(e) == [out |-> <<>>, err |-> e]
Then(a, b) == IF a.err # NoErr THEN a ELSE [out |-> a.out \o b.out, err |-> b.err]

-----------------------------------------------------------------------------
(* dump_rasr_config *)

\* (mutation of IterOrder: the loop runs over the entries back to front)
IterOrderReversed(items) == [i \in 1..Len(items) |-> Len(items) - i + 1]

\* for k, v in vars(crp).items() / d.items() / for k in config: the positions
\* of a mapping in the order the loop visits them (insertion order)
IterOrder(items) == [i \in 1..Len(items) |-> i]

\* (mutation of FragmentKwargs: the hash is passed whenever the text is)
FragmentKwargsWithHash(k, v, h) ==
    IF Truthy(v)
    THEN <<Kwarg(k, Repr(v)), Kwarg(k \o "_hash", Repr(h))>>
    ELSE <<>>

\* One round of the loop over ["prolog", "epilog"]: the keyword arguments
\* collected for the fragment k with text v and hash h
FragmentKwargs(k, v, h) ==
    IF Truthy(v)
    THEN <<Kwarg(k, Repr(v))>> \o
         (IF h # v THEN <<Kwarg(k \o "_hash", Repr(h))>> ELSE <<>>)
    ELSE <<>>

\* a hash without text passing unnoticed
FragmentOkUnchecked(v, h) == TRUE

\* `assert not h` of the else branch passes
FragmentOk(v, h) == Truthy(v) \/ ~Truthy(h)

CollectKwargs(config) ==
    FragmentKwargs("prolog", config.prolog, config.prolog_hash) \o
    FragmentKwargs("epilog", config.epilog, config.epilog_hash)

\* a constructor call decided by the parent alone, whatever was collected
NeedsConstructorNoKwargs(kwargs, parent_is_config) == ~parent_is_config

\* a constructor call for every node
NeedsConstructorAlways(kwargs, parent_is_config) == TRUE

\* a constructor call only for a node that has kwargs and no parent config
NeedsConstructorBoth(kwargs, parent_is_config) ==
    kwargs # <<>> /\ ~parent_is_config

\* if kwargs or not parent_is_config
NeedsConstructor(kwargs, parent_is_config) ==
    kwargs # <<>> \/ ~parent_is_config

\* an own value that counts as absent whenever it is falsy
ValueIsFalsy(config) == ~Truthy(config.value)

\* (mutation of ValueIsNone: the own value is never looked at)
ValueIsNoneUnchecked(config) == TRUE

\* config._value is None
ValueIsNone(config) == config.value = PyNone

\* (mutation of ConstructorBranch: the constructor is printed before the assert)
ConstructorBranchPrintFirst(lhs, config, kwargs, at) ==
    IF ~ValueIsNone(config)
    THEN [out |-> <<Stmt(lhs, ConfigCall(kwargs), at)>>, err |-> AssertionError(at)]
    ELSE Ok(<<Stmt(lhs, ConfigCall(kwargs), at)>>)

\* The branch that prints the constructor call
ConstructorBranch(lhs, config, kwargs, at) ==
    IF ~ValueIsNone(config)
    THEN Raise(AssertionError(at))
    ELSE Ok(<<Stmt(lhs, ConfigCall(kwargs), at)>>)

\* an own value printed only if it is truthy
ValueBranchSkipFalsy(lhs, config, at) ==
    IF Truthy(config.value)
    THEN Ok(<<Stmt(lhs, Literal(Repr(config.value)), at)>>)
    ELSE Ok(<<>>)

\* The else branch: the node's own value, if it has one
ValueBranch(lhs, config, at) ==
    IF ~ValueIsNone(config)
    THEN Ok(<<Stmt(lhs, Literal(Repr(config.value)), at)>>)
    ELSE Ok(<<>>)

\* dump_rasr_config up to the loop over the children
ConfigHead(lhs, config, parent_is_config, at) ==
    IF ~FragmentOk(config.prolog, config.prolog_hash)
    THEN Raise(AssertionError(at))
    ELSE IF ~FragmentOk(config.epilog, config.epilog_hash)
    THEN Raise(AssertionError(at))
    ELSE IF NeedsConstructor(CollectKwargs(config), parent_is_config)
    THEN ConstructorBranch(lhs, config, CollectKwargs(config), at)
    ELSE ValueBranch(lhs, config, at)

\* (mutation of PyAttr: the key is used as it is)
PyAttrNoReplace(k) == k

\* py_attr = k.replace("-", "_")
PyAttr(k) == Replace(k, "-", "_")

\* the bracket form written with the normalised key
SubLhsBracketNormalised(lhs, k) ==
    IF is_valid_python_attrib_name(PyAttr(k))
    THEN Append(lhs, Attr(PyAttr(k)))
    ELSE Append(lhs, Key(PyAttr(k)))

SubLhs(lhs, k) ==
    IF is_valid_python_attrib_name(PyAttr(k))
    THEN Append(lhs, Attr(PyAttr(k)))
    ELSE Append(lhs, Key(k))

RECURSIVE dump_rasr_config(_, _, _, _)
RECURSIVE ConfigChildren(_, _, _, _)

\* The loop `for k in config`, from its n-th round on
ConfigChildren(lhs, config, at, n) ==
    IF n > Len(config.items) THEN Ok(<<>>)
    ELSE LET i == IterOrder(config.items)[n]
             k == config.items[i].k
             v == config.items[i].v
             sub_lhs == SubLhs(lhs, k)
             round == IF IsInstance(v, {"RasrConfig"})
                      THEN dump_rasr_config(sub_lhs, v, TRUE, Append(at, i))
                      ELSE Ok(<<Stmt(sub_lhs, Literal(py_repr(v)), Append(at, i))>>)
         IN  Then(round, ConfigChildren(lhs, config, at, n + 1))

dump_rasr_config(lhs, config, parent_is_config, at) ==
    Then(ConfigHead(lhs, config, parent_is_config, at),
         ConfigChildren(lhs, config, at, 1))

-----------------------------------------------------------------------------
(* _dump_crp_dict and dump_crp *)

\* f"{lhs}.{k}"
DotLhs(lhs, k) == Append(lhs, Attr(k))

\* (mutation of HeldConfigParentIsConfig)
HeldConfigParentIsConfigTrue == TRUE

\* parent_is_config passed for a RasrConfig held by a bundle or a dict
HeldConfigParentIsConfig == FALSE

\* (mutation of PrimitiveOrRaise: an unsupported value is skipped)
PrimitiveOrSkip(lhs, v, at) ==
    IF IsInstance(v, _valid_primitive_types)
    THEN Ok(<<Stmt(lhs, Literal(py_repr(v)), at)>>)
    ELSE Ok(<<>>)

\* every value that is not a config printed through py_repr, whatever its type
PrimitiveOrRepr(lhs, v, at) ==
    Ok(<<Stmt(lhs, Literal(py_repr(v)), at)>>)

\* The last two branches of both loops: a primitive is printed, anything
\* else raises
PrimitiveOrRaise(lhs, v, at) ==
    IF IsInstance(v, _valid_primitive_types)
    THEN Ok(<<Stmt(lhs, Literal(py_repr(v)), at)>>)
    ELSE Raise(TypeError(lhs, v, at))

RECURSIVE DictItems(_, _, _, _)

\* The loop of _dump_crp_dict, from its n-th round on
DictItems(lhs, d, at, n) ==
    IF n > Len(d.items) THEN Ok(<<>>)
    ELSE LET i == IterOrder(d.items)[n]
             k == d.items[i].k
             v == d.items[i].v
             round == IF IsInstance(v, {"RasrConfig"})
                      THEN dump_rasr_config(DotLhs(lhs, k), v,
                                            HeldConfigParentIsConfig, Append(at, i))
                      ELSE PrimitiveOrRaise(DotLhs(lhs, k), v, Append(at, i))
         IN  Then(round, DictItems(lhs, d, at, n + 1))

_dump_crp_dict(lhs, d, at) == DictItems(lhs, d, at, 1)

\* (mutation of DefaultLhs: a missing target is left as it is)
DefaultLhsMissing(lhs) == lhs

\* if lhs is None: lhs = "crp"
DefaultLhs(lhs) == IF lhs = <<>> THEN <<Name(<<"c", "r", "p">>)>> ELSE lhs

RECURSIVE dump_crp(_, _, _)
RECURSIVE CrpAttrs(_, _, _, _)

\* The loop of dump_crp, from its n-th round on
CrpAttrs(lhs, crp, at, n) ==
    IF n > Len(crp.items) THEN Ok(<<>>)
    ELSE LET i == IterOrder(crp.items)[n]
             k == crp.items[i].k
             v == crp.items[i].v
             round == IF IsInstance(v, {"RasrConfig"})
                      THEN dump_rasr_config(DotLhs(lhs, k), v,
                                            HeldConfigParentIsConfig, Append(at, i))
                      ELSE IF IsInstance(v, {"CommonRasrParameters"})
                      THEN dump_crp(v, DotLhs(lhs, k), Append(at, i))
                      ELSE IF IsInstance(v, {"dict"})
                      THEN _dump_crp_dict(DotLhs(lhs, k), v, Append(at, i))
                      ELSE PrimitiveOrRaise(DotLhs(lhs, k), v, Append(at, i))
         IN  Then(round, CrpAttrs(lhs, crp, at, n + 1))

dump_crp(crp, lhs, at) ==
    Then(Ok(<<Stmt(DefaultLhs(lhs), CrpCall, at)>>),
         CrpAttrs(DefaultLhs(lhs), crp, at, 1))

-----------------------------------------------------------------------------
(* dump_py_code and dump_py_code_common_imports *)

\* dump_py_code handing a config on as if it had a parent config
dump_py_code_as_child(o, lhs, at) ==
    IF IsInstance(o, {"CommonRasrParameters"})
    THEN dump_crp(o, lhs, at)
    ELSE IF IsInstance(o, {"RasrConfig"})
    THEN dump_rasr_config(lhs, o, TRUE, at)
    ELSE Ok(<<Stmt(lhs, Literal(py_repr(o)), at)>>)

dump_py_code(o, lhs, at) ==
    IF IsInstance(o, {"CommonRasrParameters"})
    THEN dump_crp(o, lhs, at)
    ELSE IF IsInstance(o, {"RasrConfig"})
    THEN dump_rasr_config(lhs, o, FALSE, at)
    ELSE Ok(<<Stmt(lhs, Literal(py_repr(o)), at)>>)

\* The one print() of the dedented import block
ImportsText == [form |-> "text",
                text |-> "from sisyphus import gs, tk\nimport i6_core.rasr as rasr\n",
                kwargs |-> <<>>]

dump_py_code_common_imports == <<Stmt(<<>>, ImportsText, <<>>)>>

-----------------------------------------------------------------------------
(* The inputs explored: trees as the experiment code builds them *)

\* the mappings with at most n entries, keys (distinct) from K, values from V
ItemSeqs(K, V, n) ==
    UNION { { s \in [1..m -> {Item(k, v) : k \in K, v \in V}] :
                \A i, j \in 1..m : s[i].k = s[j].k => i = j } : m \in 0..n }

kA == <<"a">>
kB == <<"b">>
kC == <<"c">>
kFooBarHyphen == <<"f", "-", "b">>
kFooBarUnderscore == <<"f", "_", "b">>
kDigitFirst == <<"1", "-", "a">>
kKeyword == <<"i", "f">>
kTimeout == <<"t", "i", "m", "e", "o", "u", "t">>
kSub == <<"s", "u", "b">>
kLm == <<"l", "m">>
kTdpScale == <<"t", "d", "p", "-", "s", "c", "a", "l", "e">>
kX == <<"X">>

Plain(children) == RasrConfig(PyNone, PyStr(""), PyStr(""), PyStr(""), PyStr(""), children)
Valued(value, children) ==
    RasrConfig(value, PyStr(""), PyStr(""), PyStr(""), PyStr(""), children)

ScoreChildren == <<Item(kLm, PyFloat(5)), Item(kTdpScale, PyFloat(10))>>

\* config nodes used below another node
EmptyNode == Plain(<<>>)
ValueNode == Valued(PyStr("speech"), <<Item(kA, PyFloat(5))>>)
PrologNode ==
    RasrConfig(PyNone, PyStr("x"), PyStr("y"), PyStr(""), PyStr(""),
               <<Item(kFooBarHyphen, Valued(PyInt(30), <<>>))>>)
ValueAndPrologNode ==
    RasrConfig(PyStr("speech"), PyStr("x"), PyStr("x"), PyStr(""), PyStr(""), <<>>)
HashOnlyNode ==
    RasrConfig(PyNone, PyStr(""), PyStr("y"), PyStr(""), PyStr(""), <<>>)

NestedNodes == {EmptyNode, ValueNode, PrologNode, ValueAndPrologNode, HashOnlyNode}

ConfigKeys == {kA, kFooBarHyphen, kFooBarUnderscore, kDigitFirst, kKeyword}

OwnValues ==
    { PyNone, PyStr("speech"), PyInt(0), MultiPath("p"),
      PyFloat(0), PyBool(FALSE), PyStr("") }
Fragments ==
    { <<PyStr(""), PyStr("")>>, <<PyStr("x"), PyStr("x")>>, <<PyStr("x"), PyStr("y")>>,
      <<PyStr("x"), PyStr("")>>, <<PyStr(""), PyStr("y")>>, <<PyNone, PyNone>>,
      <<PyNone, PyStr("y")>> }

\* every own value / prolog / epilog combination, over two fixed sets of children
HeaderConfigs ==
    { RasrConfig(v, p[1], p[2], e[1], e[2], ch) :
        v \in OwnValues, p \in Fragments, e \in Fragments,
        ch \in {<<>>, ScoreChildren} }

\* every arrangement of children below a plain node
ShapeConfigs ==
    { Plain(ch) : ch \in ItemSeqs(ConfigKeys, {PyFloat(5)} \cup NestedNodes, MaxChildren) }

DictKeys == {kA, kB, kFooBarHyphen}
DictValues == {PyFloat(5), Plain(<<Item(kA, PyInt(30))>>), PyList}
\* a primitive entry followed by an empty config, a bundle, a mapping or a
\* path object
NestingDicts ==
    { PyDict(<<Item(kA, PyFloat(5)), Item(kB, v)>>) :
        v \in { EmptyNode, CommonRasrParameters(<<>>), PyDict(<<>>),
                PyDict(<<Item(kA, PyFloat(5))>>), MultiPath("p") } }

Dicts ==
    { PyDict(items) : items \in ItemSeqs(DictKeys, DictValues, MaxItems) } \cup NestingDicts

AttrKeys == {kA, kB, kC}
AttrValues ==
    { PyInt(30), MultiPath("p"), PyObject("Custom"),
      PyDict(<<>>), PyDict(<<Item(kA, PyFloat(5))>>),
      CommonRasrParameters(<<>>),
      CommonRasrParameters(<<Item(kB, PyInt(30)), Item(kA, PyObject("Custom"))>>),
      EmptyNode, Plain(ScoreChildren), Valued(PyStr("speech"), ScoreChildren) }

Bundles ==
    { CommonRasrParameters(attrs) : attrs \in ItemSeqs(AttrKeys, AttrValues, MaxAttrs) }

DictBundles ==
    { CommonRasrParameters(<<Item(kB, d)>>) : d \in Dicts } \cup
    { CommonRasrParameters(<<Item(kA, PyInt(30)), Item(kB, d)>>) : d \in Dicts }

\* the bundle of the scenario: timeout=30, then sub with an own value and two children
ScenarioBundle ==
    CommonRasrParameters(<<Item(kTimeout, PyInt(30)),
                           Item(kSub, Valued(PyStr("speech"), ScoreChildren))>>)
\* the same bundle with no own value on sub
ScenarioBundleNoValue ==
    CommonRasrParameters(<<Item(kTimeout, PyInt(30)), Item(kSub, Plain(ScoreChildren))>>)
\* attributes inserted in the order c, a, b
OrderBundle ==
    CommonRasrParameters(<<Item(kC, PyInt(30)), Item(kA, PyFloat(5)), Item(kB, PyStr("x"))>>)
OrderConfig ==
    Plain(<<Item(kC, PyInt(30)), Item(kA, PyFloat(5)), Item(kB, PyStr("x"))>>)

Primitives ==
    { PyNone, PyBool(TRUE), PyBool(FALSE), PyInt(0), PyInt(30), PyFloat(5), PyFloat(10),
      PyStr(""), PyStr("speech"), MultiPath("p") }

\* a config whose child node has a path object as its own value
PathValueConfig == Plain(<<Item(kA, Valued(MultiPath("p"), <<>>)), Item(kB, MultiPath("p"))>>)

Configs == HeaderConfigs \cup ShapeConfigs \cup {OrderConfig, PathValueConfig}
Crps == Bundles \cup DictBundles \cup {ScenarioBundle, ScenarioBundleNoValue, OrderBundle}
Inputs == Configs \cup Crps \cup Dicts \cup Primitives

-----------------------------------------------------------------------------
(* The calls *)

TargetX == <<Name(kX)>>

Init ==
    /\ obj \in Inputs
    /\ fn = "none"
    /\ lhsArg = <<>>
    /\ pic = FALSE
    /\ sink = <<>>
    /\ pc = "ready"
    /\ err = NoErr
    /\ StepIdle
    /\ EpochIdle
    /\ RecogIdle

\* a call that writes its lines over what the sink held
FinishOverwriting(r) ==
    /\ sink' = r.out
    /\ err' = r.err
    /\ pc' = IF r.err = NoErr THEN "returned" ELSE "raised"

\* the lines appended and the error raised by one top-level call
Finish(r) ==
    /\ sink' = sink \o r.out
    /\ err' = r.err
    /\ pc' = IF r.err = NoErr THEN "returned" ELSE "raised"

CommonImports ==
    /\ pc = "ready"
    /\ sink = <<>>
    /\ sink' = sink \o dump_py_code_common_imports
    /\ UNCHANGED <<obj, fn, lhsArg, pic, pc, err>>
    /\ UNCHANGED <<stepVars, epochVars, recogVars>>

CallDumpPyCode ==
    /\ pc = "ready"
    /\ obj.kind # "dict"
    /\ fn' = "dump_py_code"
    /\ lhsArg' = TargetX
    /\ Finish(dump_py_code(obj, TargetX, <<>>))
    /\ UNCHANGED <<obj, pic>>
    /\ UNCHANGED <<stepVars, epochVars, recogVars>>

CallDumpCrp ==
    /\ pc = "ready"
    /\ obj.kind = "CommonRasrParameters"
    /\ \E l \in {<<>>, TargetX} :
         /\ lhsArg' = l
         /\ Finish(dump_crp(obj, l, <<>>))
    /\ fn' = "dump_crp"
    /\ UNCHANGED <<obj, pic>>
    /\ UNCHANGED <<stepVars, epochVars, recogVars>>

CallDumpCrpDict ==
    /\ pc = "ready"
    /\ obj.kind = "dict"
    /\ fn' = "_dump_crp_dict"
    /\ lhsArg' = TargetX
    /\ Finish(_dump_crp_dict(TargetX, obj, <<>>))
    /\ UNCHANGED <<obj, pic>>
    /\ UNCHANGED <<stepVars, epochVars, recogVars>>

CallDumpRasrConfig ==
    /\ pc = "ready"
    /\ obj.kind = "RasrConfig"
    /\ \E p \in BOOLEAN :
         /\ pic' = p
         /\ Finish(dump_rasr_config(TargetX, obj, p, <<>>))
    /\ fn' = "dump_rasr_config"
    /\ lhsArg' = TargetX
    /\ UNCHANGED obj
    /\ UNCHANGED <<stepVars, epochVars, recogVars>>

Next ==
    \/ CommonImports
    \/ CallDumpPyCode
    \/ CallDumpCrp
    \/ CallDumpCrpDict
    \/ CallDumpRasrConfig

Spec == Init /\ [][Next]_vars

-----------------------------------------------------------------------------
(* What a state shows of the call *)

\* the lines of the sink that the call printed (all but the import block)
CallOut == SelectSeq(sink, LAMBDA s : s.rhs.form # "text")

\* the printed text of a line, without its history field
Text(s) == [lhs |-> s.lhs, rhs |-> s.rhs]
Texts(out) == [i \in 1..Len(out) |-> Text(out[i])]

-----------------------------------------------------------------------------
(* Positions in the input tree *)

Containers == {"RasrConfig", "CommonRasrParameters", "dict"}

Front(p) == SubSeq(p, 1, Len(p) - 1)

IsPrefix(a, b) == Len(a) <= Len(b) /\ SubSeq(b, 1, Len(a)) = a

\* position a is visited before position b by a depth-first walk that takes
\* the entries of every mapping in their stored order
Before(a, b) ==
    \/ Len(a) < Len(b) /\ IsPrefix(a, b)
    \/ \E i \in 1..Len(a) :
         /\ i <= Len(b)
         /\ SubSeq(a, 1, i - 1) = SubSeq(b, 1, i - 1)
         /\ a[i] < b[i]

RECURSIVE NodeAt(_, _)
NodeAt(tree, p) == IF p = <<>> THEN tree ELSE NodeAt(tree.items[p[1]].v, Tail(p))

KeyAt(tree, p) == NodeAt(tree, Front(p)).items[p[Len(p)]].k

RECURSIVE Positions(_)
Positions(tree) ==
    {<<>>} \cup
    (IF tree.kind \in Containers
     THEN UNION { { <<i>> \o p : p \in Positions(tree.items[i].v) } :
                  i \in 1..Len(tree.items) }
     ELSE {})

\* a fragment text that is there: neither None nor the empty string
TextPresent(v) == v # PyNone /\ v # PyStr("")

HasFragmentText(node) == TextPresent(node.prolog) \/ TextPresent(node.epilog)

\* the node at p is reached from a parent RasrConfig (for the root: the
\* caller of dump_rasr_config said so)
ReachedFromConfig(p) ==
    IF p = <<>>
    THEN fn = "dump_rasr_config" /\ pic
    ELSE NodeAt(obj, Front(p)).kind = "RasrConfig"

\* a config node with an own value that needs an explicit constructor call
ExclusionViolatedAt(p) ==
    /\ NodeAt(obj, p).kind = "RasrConfig"
    /\ NodeAt(obj, p).value # PyNone
    /\ (HasFragmentText(NodeAt(obj, p)) \/ ~ReachedFromConfig(p))

-----------------------------------------------------------------------------
(* C2 *)

-----------------------------------------------------------------------------
(* C3 *)

-----------------------------------------------------------------------------
(* C4 *)

HasHyphen(k) == \E i \in 1..Len(k) : k[i] = "-"
Hyphenless(k) == [i \in 1..Len(k) |-> IF k[i] = "-" THEN "_" ELSE k[i]]
LastSeg(s) == s.lhs[Len(s.lhs)]

\* the lines printed for children of a config node
ChildLines == { i \in 1..Len(CallOut) :
                  /\ CallOut[i].at # <<>>
                  /\ NodeAt(obj, Front(CallOut[i].at)).kind = "RasrConfig" }

\* C4 as stated: a child key with a hyphen is addressed as target['key'],
\* never with a dot; a key that is a valid identifier as target.key.
HyphenKeysBracketed ==
    \A i \in ChildLines :
        LET k == KeyAt(obj, CallOut[i].at)
        IN  /\ HasHyphen(k) => LastSeg(CallOut[i]) = Key(k)
            /\ is_valid_python_attrib_name(k) => LastSeg(CallOut[i]) = Attr(k)

\* C4, amended: a child key with a hyphen is addressed with a dot and the
\* key with its hyphens turned into underscores (foo-bar as target.foo_bar)
\* when that name is a valid attribute name, and as target['key'] on the
\* original key only when it is not; a key that is a valid identifier is
\* addressed as target.key.
HyphenKeysNormalised ==
    \A i \in ChildLines :
        LET k == KeyAt(obj, CallOut[i].at)
        IN  /\ HasHyphen(k) /\ is_valid_python_attrib_name(Hyphenless(k))
                => LastSeg(CallOut[i]) = Attr(Hyphenless(k))
            /\ HasHyphen(k) /\ ~is_valid_python_attrib_name(Hyphenless(k))
                => LastSeg(CallOut[i]) = Key(k)
            /\ is_valid_python_attrib_name(k) => LastSeg(CallOut[i]) = Attr(k)

\* foo-bar printed as .foo_bar, and a hyphen key printed in brackets
HyphenKeysWitness ==
    /\ \E i \in ChildLines :
         /\ KeyAt(obj, CallOut[i].at) = kFooBarHyphen
         /\ LastSeg(CallOut[i]) = Attr(kFooBarUnderscore)
    /\ \E i \in ChildLines :
         /\ KeyAt(obj, CallOut[i].at) = kDigitFirst
         /\ LastSeg(CallOut[i]) = Key(kDigitFirst)

-----------------------------------------------------------------------------
(* C5 *)

Line(lhs, rhs) == [lhs |-> lhs, rhs |-> rhs]

ScenarioCall(bundle) ==
    /\ obj = bundle
    /\ fn \in {"dump_py_code", "dump_crp"}
    /\ lhsArg = TargetX
    /\ pc # "ready"

\* C5 as stated: the scenario bundle is dumped without error as the bundle
\* constructor, X.timeout = 30, X.sub.lm = 0.5, X.sub['tdp-scale'] = 1.0.
ScenarioAsStated ==
    ScenarioCall(ScenarioBundle) =>
        /\ pc = "returned"
        /\ Texts(CallOut) =
             << Line(TargetX, CrpCall),
                Line(TargetX \o <<Attr(kTimeout)>>, Literal("30")),
                Line(TargetX \o <<Attr(kSub), Attr(kLm)>>, Literal("0.5")),
                Line(TargetX \o <<Attr(kSub), Key(kTdpScale)>>, Literal("1.0")) >>

\* C5, amended: for the scenario bundle the call prints the bundle
\* constructor and X.timeout = 30 and then fails with the assertion at
\* X.sub, printing nothing for X.sub or its children; with no own value on
\* sub it returns and has printed the bundle constructor, X.timeout = 30,
\* X.sub = rasr.RasrConfig(), X.sub.lm = 0.5, X.sub.tdp_scale = 1.0.
ScenarioAsCoded ==
    /\ ScenarioCall(ScenarioBundle) =>
        /\ pc = "raised"
        /\ err.exc = "AssertionError"
        /\ err.at = <<2>>
        /\ Texts(CallOut) =
             << Line(TargetX, CrpCall),
                Line(TargetX \o <<Attr(kTimeout)>>, Literal("30")) >>
    /\ ScenarioCall(ScenarioBundleNoValue) =>
        /\ pc = "returned"
        /\ Texts(CallOut) =
             << Line(TargetX, CrpCall),
                Line(TargetX \o <<Attr(kTimeout)>>, Literal("30")),
                Line(TargetX \o <<Attr(kSub)>>, ConfigCall(<<>>)),
                Line(TargetX \o <<Attr(kSub), Attr(kLm)>>, Literal("0.5")),
                Line(TargetX \o <<Attr(kSub), Attr(Hyphenless(kTdpScale))>>,
                     Literal("1.0")) >>

ScenarioWitness ==
    /\ ScenarioCall(ScenarioBundle)
    /\ fn = "dump_py_code"
    /\ pc = "raised"
    /\ Len(CallOut) = 2

-----------------------------------------------------------------------------
(* C6 *)

HasKwarg(s, k) == \E j \in 1..Len(s.rhs.kwargs) : s.rhs.kwargs[j].k = k
HasKwargText(s, k, text) == \E j \in 1..Len(s.rhs.kwargs) : s.rhs.kwargs[j] = Kwarg(k, text)
Quoted(v) == "'" \o v.val \o "'"

ConstructorLines == { i \in 1..Len(CallOut) : CallOut[i].rhs.form = "rasr.RasrConfig" }

\* position p was visited by the call, and the call did not fail there
VisitedWithoutError(p) ==
    \/ pc = "returned"
    \/ pc = "raised" /\ Before(p, err.at)

\* C6: a config node with prolog (epilog) text that is visited without
\* error gets a constructor line; every constructor line of a node with
\* prolog (epilog) text passes the text, and passes the hash if and only if
\* the hash differs from the text.
HashElision ==
    /\ \A p \in Positions(obj) :
         /\ NodeAt(obj, p).kind = "RasrConfig"
         /\ HasFragmentText(NodeAt(obj, p))
         /\ VisitedWithoutError(p)
         => \E i \in ConstructorLines : CallOut[i].at = p
    /\ \A i \in ConstructorLines :
         LET s == CallOut[i]
             node == NodeAt(obj, s.at)
         IN  /\ TextPresent(node.prolog) =>
                   /\ HasKwargText(s, "prolog", Quoted(node.prolog))
                   /\ HasKwarg(s, "prolog_hash") <=> (node.prolog_hash # node.prolog)
             /\ TextPresent(node.epilog) =>
                   /\ HasKwargText(s, "epilog", Quoted(node.epilog))
                   /\ HasKwarg(s, "epilog_hash") <=> (node.epilog_hash # node.epilog)

\* prolog 'x' with hash 'x': the constructor call passes the prolog alone
HashElisionWitness ==
    \E i \in ConstructorLines :
        /\ NodeAt(obj, CallOut[i].at).prolog = PyStr("x")
        /\ NodeAt(obj, CallOut[i].at).prolog_hash = PyStr("x")
        /\ CallOut[i].rhs.kwargs = <<Kwarg("prolog", "'x'")>>

-----------------------------------------------------------------------------
(* C7 *)

\* C7: the lines appear in the stored order of the keys: of two lines, the
\* earlier one belongs to the node that a depth-first walk in insertion
\* order visits first, so the lines of one key's subtree are contiguous and
\* precede those of the next key.
KeyOrderPreserved ==
    \A i, j \in 1..Len(CallOut) : i < j => Before(CallOut[i].at, CallOut[j].at)

\* attributes stored as c, a, b are printed as c, a, b
KeyOrderWitness ==
    /\ obj = OrderBundle
    /\ pc = "returned"
    /\ Len(CallOut) = 4
    /\ LastSeg(CallOut[2]) = Attr(kC)
    /\ LastSeg(CallOut[3]) = Attr(kA)
    /\ LastSeg(CallOut[4]) = Attr(kB)

-----------------------------------------------------------------------------
(* C9 and C10 *)

SupportedKinds ==
    {"RasrConfig", "CommonRasrParameters", "dict",
     "NoneType", "int", "float", "str", "bool", "MultiPath"}

\* the target the call started from
CallTarget == IF lhsArg = <<>> THEN <<Name(<<"c", "r", "p">>)>> ELSE lhsArg

\* the call's target followed by .key for every key on the way to p
DottedPath(p) == CallTarget \o [j \in 1..Len(p) |-> Attr(KeyAt(obj, SubSeq(p, 1, j)))]

UnsupportedAttributeAt(p) ==
    /\ p # <<>>
    /\ NodeAt(obj, Front(p)).kind = "CommonRasrParameters"
    /\ NodeAt(obj, p).kind \notin SupportedKinds

\* C9: a bundle attribute of an unsupported type makes the call fail; unless
\* the call failed earlier, it fails at that attribute with a TypeError that
\* names the dotted path of the attribute and its type; no line is printed
\* for the attribute or for anything after it.
UnrepresentableAttribute ==
    pc # "ready" =>
        \A p \in Positions(obj) :
            UnsupportedAttributeAt(p) =>
                /\ pc = "raised"
                /\ err.at = p \/ Before(err.at, p)
                /\ err.at = p =>
                       err = [exc |-> "TypeError", lhs |-> DottedPath(p),
                              type |-> NodeAt(obj, p).kind, at |-> p]
                /\ \A i \in 1..Len(CallOut) : Before(CallOut[i].at, p)

\* an unsupported attribute of a bundle nested in a bundle, after a valid one
UnrepresentableAttributeWitness ==
    /\ pc = "raised"
    /\ Len(err.at) = 2
    /\ UnsupportedAttributeAt(err.at)
    /\ err.at[2] = 2
    /\ err.lhs = DottedPath(err.at)
    /\ err.type = "object"

HashWithoutText(node) ==
    \/ ~TextPresent(node.prolog) /\ TextPresent(node.prolog_hash)
    \/ ~TextPresent(node.epilog) /\ TextPresent(node.epilog_hash)

\* C10 as stated: every error names the path of the offending node and the
\* type or invariant violated.
ErrorsCarryLocation ==
    pc = "raised" => err.lhs # <<>> /\ err.type # ""

\* C10, amended: every TypeError names the full dotted path of the offending
\* value and its runtime type, a type that its holder (bundle or mapping)
\* does not take; the two invariant violations are raised by
\* bare assert statements and carry neither a path nor the invariant.
TypeErrorsCarryLocation ==
    pc = "raised" =>
        /\ err.exc \in {"TypeError", "AssertionError"}
        /\ err.exc = "TypeError" =>
               /\ err.lhs = DottedPath(err.at)
               /\ err.type = NodeAt(obj, err.at).kind
               /\ err.at # <<>>
               /\ err.type \notin
                      (IF NodeAt(obj, Front(err.at)).kind = "dict"
                       THEN {"RasrConfig"} \cup _valid_primitive_types
                       ELSE SupportedKinds)
        /\ err.exc = "AssertionError" =>
               /\ err.lhs = <<>>
               /\ err.type = ""
               /\ NodeAt(obj, err.at).kind = "RasrConfig"
               /\ ExclusionViolatedAt(err.at) \/ HashWithoutText(NodeAt(obj, err.at))

\* a bare assertion failure, for a hash without text on a node below the root
ErrorLocationWitness ==
    /\ pc = "raised"
    /\ err.exc = "AssertionError"
    /\ err.at # <<>>
    /\ HashWithoutText(NodeAt(obj, err.at))
    /\ err.lhs = <<>>

-----------------------------------------------------------------------------
(* Replaying the printed lines in a fresh environment.  The environment is  *)
(* the one the dump is written for: rasr.CommonRasrParameters is a plain    *)
(* object, rasr.RasrConfig creates a missing child on access, reads an      *)
(* attribute name as the key with "_" written "-", keeps a scalar assigned  *)
(* to a child as that child's own value, and takes a hash that is not       *)
(* passed to be the text.                                                   *)

ReplayError == [kind |-> "ReplayError"]
Unbound == [kind |-> "Unbound"]

LiteralValues == Primitives \cup {PyStr("x"), PyStr("y")}

\* eval(text) of a literal
PyEval(text) ==
    IF \E v \in LiteralValues : py_repr(v) = text
    THEN CHOOSE v \in LiteralValues : py_repr(v) = text
    ELSE ReplayError

KwargValue(kwargs, k, default) ==
    IF \E j \in 1..Len(kwargs) : kwargs[j].k = k
    THEN PyEval(kwargs[CHOOSE j \in 1..Len(kwargs) : kwargs[j].k = k].v)
    ELSE default

\* rasr.RasrConfig(**kwargs)
NewConfig(kwargs) ==
    LET prolog == KwargValue(kwargs, "prolog", PyStr(""))
        epilog == KwargValue(kwargs, "epilog", PyStr(""))
    IN  RasrConfig(PyNone,
                   prolog, KwargValue(kwargs, "prolog_hash", prolog),
                   epilog, KwargValue(kwargs, "epilog_hash", epilog),
                   <<>>)

EvalRhs(rhs) ==
    CASE rhs.form = "literal" -> PyEval(rhs.text)
      [] rhs.form = "rasr.CommonRasrParameters" -> CommonRasrParameters(<<>>)
      [] rhs.form = "rasr.RasrConfig" -> NewConfig(rhs.kwargs)
      [] OTHER -> ReplayError

IndexOf(items, k) ==
    IF \E i \in 1..Len(items) : items[i].k = k
    THEN CHOOSE i \in 1..Len(items) : items[i].k = k
    ELSE 0

SetItem(items, k, v) ==
    IF IndexOf(items, k) = 0
    THEN Append(items, Item(k, v))
    ELSE [items EXCEPT ![IndexOf(items, k)] = Item(k, v)]

\* the child key that a segment of a left-hand side addresses on a RasrConfig
ConfigKey(seg) == IF seg.seg = "attr" THEN Replace(seg.k, "_", "-") ELSE seg.k

RECURSIVE Assign(_, _, _)
\* tree after `tree<path> = value`
Assign(tree, path, value) ==
    IF tree.kind = "CommonRasrParameters"
    THEN LET k == path[1].k
         IN  IF path[1].seg # "attr" THEN ReplayError
             ELSE IF Len(path) = 1
             THEN [tree EXCEPT !.items = SetItem(tree.items, k, value)]
             ELSE IF IndexOf(tree.items, k) = 0 THEN ReplayError
             ELSE LET sub == Assign(tree.items[IndexOf(tree.items, k)].v, Tail(path), value)
                  IN  IF sub = ReplayError THEN ReplayError
                      ELSE [tree EXCEPT !.items = SetItem(tree.items, k, sub)]
    ELSE IF tree.kind = "RasrConfig"
    THEN LET k == ConfigKey(path[1])
             child == IF IndexOf(tree.items, k) = 0
                      THEN Plain(<<>>)
                      ELSE tree.items[IndexOf(tree.items, k)].v
             sub == IF Len(path) > 1 THEN Assign(child, Tail(path), value)
                    ELSE IF value.kind = "RasrConfig" THEN value
                    ELSE IF value.kind \in _valid_primitive_types
                    THEN [child EXCEPT !.value = value]
                    ELSE ReplayError
         IN  IF sub = ReplayError THEN ReplayError
             ELSE [tree EXCEPT !.items = SetItem(tree.items, k, sub)]
    ELSE ReplayError

RECURSIVE Replay(_, _)
\* the value bound to the target after running the lines, from env
Replay(lines, env) ==
    IF lines = <<>> \/ env = ReplayError THEN env
    ELSE LET line == Head(lines)
             value == EvalRhs(line.rhs)
             next == IF value = ReplayError THEN ReplayError
                     ELSE IF Len(line.lhs) = 1 THEN value
                     ELSE IF env = Unbound THEN ReplayError
                     ELSE Assign(env, Tail(line.lhs), value)
         IN  Replay(Tail(lines), next)

RECURSIVE Canonical(_)
\* The tree up to what no replay can tell apart: a scalar child of a config
\* is a child node with that own value, child keys are written with "-",
\* and an absent fragment is the empty string with an empty hash.
Canonical(v) ==
    CASE v.kind = "RasrConfig" ->
           RasrConfig(v.value,
                      IF TextPresent(v.prolog) THEN v.prolog ELSE PyStr(""),
                      IF TextPresent(v.prolog) THEN v.prolog_hash ELSE PyStr(""),
                      IF TextPresent(v.epilog) THEN v.epilog ELSE PyStr(""),
                      IF TextPresent(v.epilog) THEN v.epilog_hash ELSE PyStr(""),
                      [i \in 1..Len(v.items) |->
                          Item(Replace(v.items[i].k, "_", "-"),
                               IF v.items[i].v.kind = "RasrConfig"
                               THEN Canonical(v.items[i].v)
                               ELSE Valued(v.items[i].v, <<>>))])
      [] v.kind \in {"CommonRasrParameters", "dict"} ->
           [v EXCEPT !.items = [i \in 1..Len(v.items) |->
                                   Item(v.items[i].k, Canonical(v.items[i].v))]]
      [] OTHER -> v

-----------------------------------------------------------------------------
(* C1 *)

\* C1: when dump_py_code(T, lhs) returns for a bundle or config T, running
\* the printed lines in a fresh environment binds lhs to a tree equal to T:
\* same keys in the same order, same values, same prolog/epilog and hashes.
RoundTrip ==
    /\ fn = "dump_py_code"
    /\ pc = "returned"
    /\ obj.kind \in {"CommonRasrParameters", "RasrConfig"}
    => Replay(Texts(CallOut), Unbound) = Canonical(obj)

-----------------------------------------------------------------------------
(* C11 *)

\* the lines s followed by further lines give t
Extends(s, t) ==
    /\ Len(s) <= Len(t)
    /\ \A i \in 1..Len(s) : t[i] = s[i]

\* C11: every step of every call, returning or raising, leaves the tree it
\* was given as it was and changes the sink only by appending lines to it.
InputsReadOnly == [][obj' = obj /\ Extends(sink, sink')]_vars

\* a call that raised after appending lines behind the import preamble
InputsReadOnlyWitness ==
    /\ pc = "raised"
    /\ CallOut # <<>>
    /\ Len(sink) > Len(CallOut)

-----------------------------------------------------------------------------
(* C12 *)

\* the lines printed for the root itself
RootLines == { i \in 1..Len(CallOut) : CallOut[i].at = <<>> }

\* C12: dump_py_code(obj, lhs) dispatches on obj.  A bundle: the first line
\* is `lhs = rasr.CommonRasrParameters()`, the only line of the root, and
\* every other line is a line of an attribute with a target beneath lhs.  A
\* config: it is treated as a node without a parent config, so it fails if
\* it has an own value and otherwise its first line is its constructor call
\* `lhs = rasr.RasrConfig(...)`.  Any other value: the call returns after
\* exactly one line `lhs = <literal>`.
EntryDispatch ==
    fn = "dump_py_code" /\ pc # "ready" =>
        CASE obj.kind = "CommonRasrParameters" ->
               /\ CallOut # <<>>
               /\ Text(CallOut[1]) = Line(TargetX, CrpCall)
               /\ RootLines = {1}
               /\ \A i \in 2..Len(CallOut) :
                      /\ Len(CallOut[i].lhs) > 1
                      /\ CallOut[i].lhs[1] = TargetX[1]
                      /\ CallOut[i].lhs[2] = Attr(KeyAt(obj, <<CallOut[i].at[1]>>))
          [] obj.kind = "RasrConfig" ->
               IF HashWithoutText(obj) \/ obj.value # PyNone
               THEN pc = "raised" /\ err.at = <<>> /\ CallOut = <<>>
               ELSE /\ CallOut # <<>>
                    /\ CallOut[1].lhs = TargetX
                    /\ CallOut[1].rhs.form = "rasr.RasrConfig"
                    /\ RootLines = {1}
          [] OTHER ->
               /\ pc = "returned"
               /\ Texts(CallOut) = <<Line(TargetX, Literal(py_repr(obj)))>>

\* a config without prolog and epilog has gone through dump_py_code: its
\* first line is the bare constructor call, its children follow
EntryDispatchWitness ==
    /\ fn = "dump_py_code"
    /\ pc = "returned"
    /\ obj.kind = "RasrConfig"
    /\ ~HasFragmentText(obj)
    /\ Len(CallOut) > 1
    /\ Text(CallOut[1]) = Line(TargetX, ConfigCall(<<>>))

-----------------------------------------------------------------------------
(* C13 *)

\* the keyword arguments of one fragment: the text if there is one, then the
\* hash if it differs from the text
KwargsOf(k, text, hash) ==
    IF TextPresent(text)
    THEN <<Kwarg(k, Quoted(text))>> \o
         (IF hash # text THEN <<Kwarg(k \o "_hash", Quoted(hash))>> ELSE <<>>)
    ELSE <<>>

\* prolog, prolog_hash, epilog, epilog_hash, each only if collected
ExpectedKwargs(node) ==
    KwargsOf("prolog", node.prolog, node.prolog_hash) \o
    KwargsOf("epilog", node.epilog, node.epilog_hash)

\* C13: a config node visited without error gets a constructor line if and
\* only if it has prolog or epilog text or is not reached from a parent
\* config; no node gets two; and the call of every constructor line passes
\* exactly the keyword arguments collected for its node, in the order
\* prolog, prolog_hash, epilog, epilog_hash.
ConstructorRule ==
    /\ \A p \in Positions(obj) :
         NodeAt(obj, p).kind = "RasrConfig" /\ VisitedWithoutError(p) =>
            ((\E i \in ConstructorLines : CallOut[i].at = p)
             <=> (HasFragmentText(NodeAt(obj, p)) \/ ~ReachedFromConfig(p)))
    /\ \A i \in ConstructorLines :
         LET node == NodeAt(obj, CallOut[i].at)
         IN  /\ node.kind = "RasrConfig"
             /\ HasFragmentText(node) \/ ~ReachedFromConfig(CallOut[i].at)
             /\ CallOut[i].rhs.kwargs = ExpectedKwargs(node)
             /\ \A j \in ConstructorLines : CallOut[j].at = CallOut[i].at => j = i

\* a node handed over as the child of a config, with prolog and epilog text
\* and differing hashes: its constructor call passes all four keyword
\* arguments in order
ConstructorRuleWitness ==
    /\ fn = "dump_rasr_config"
    /\ pic
    /\ pc = "returned"
    /\ \E i \in ConstructorLines :
          /\ CallOut[i].at = <<>>
          /\ CallOut[i].rhs.kwargs =
                <<Kwarg("prolog", "'x'"), Kwarg("prolog_hash", "'y'"),
                  Kwarg("epilog", "'x'"), Kwarg("epilog_hash", "''")>>

-----------------------------------------------------------------------------
(* C14 *)

\* target a lies strictly beneath target b
Beneath(a, b) == Len(b) < Len(a) /\ SubSeq(a, 1, Len(b)) = b

\* C14: a line that binds a target P precedes every line whose target lies
\* beneath P: no line binding P comes after a line for something beneath P.
BoundBeforeContents ==
    \A i, j \in 1..Len(CallOut) :
        Beneath(CallOut[j].lhs, CallOut[i].lhs) => i < j

\* two sibling keys of one config that normalise to the same attribute name
CollidingSiblings(p) ==
    /\ NodeAt(obj, p).kind = "RasrConfig"
    /\ \E i, j \in 1..Len(NodeAt(obj, p).items) :
          /\ i # j
          /\ Hyphenless(NodeAt(obj, p).items[i].k) = Hyphenless(NodeAt(obj, p).items[j].k)

\* the same, for the trees in which no two sibling keys collide
BoundBeforeContentsUnlessColliding ==
    (\A p \in Positions(obj) : ~CollidingSiblings(p)) => BoundBeforeContents

-----------------------------------------------------------------------------
(* C15 *)

\* how a child with key k is addressed from its parent config's target
ChildSegment(k) ==
    IF is_valid_python_attrib_name(Hyphenless(k))
    THEN Attr(Hyphenless(k))
    ELSE Key(k)

\* the target expression of the node at p
RECURSIVE TargetOf(_)
TargetOf(p) ==
    IF p = <<>> THEN CallTarget
    ELSE Append(TargetOf(Front(p)),
                IF NodeAt(obj, Front(p)).kind = "RasrConfig"
                THEN ChildSegment(KeyAt(obj, p))
                ELSE Attr(KeyAt(obj, p)))

\* C15: the line of a config child has the parent's target followed by
\* `.name`, name being the key with its hyphens turned into underscores, if
\* and only if that name is a valid attribute name; otherwise the parent's
\* target is followed by `['key']` on the original key.
ChildAddressing ==
    \A i \in ChildLines :
        LET s == CallOut[i]
            k == KeyAt(obj, s.at)
        IN  /\ s.lhs = TargetOf(s.at)
            /\ LastSeg(s).seg = "attr" <=> is_valid_python_attrib_name(Hyphenless(k))
            /\ LastSeg(s).seg = "attr" => LastSeg(s).k = Hyphenless(k)
            /\ LastSeg(s).seg # "attr" => LastSeg(s) = Key(k)

\* a reserved word and a hyphenated key side by side: the first is printed
\* in brackets, the second with dot and underscore
ChildAddressingWitness ==
    \E i, j \in ChildLines :
        /\ Front(CallOut[i].at) = Front(CallOut[j].at)
        /\ KeyAt(obj, CallOut[i].at) = kKeyword
        /\ LastSeg(CallOut[i]) = Key(kKeyword)
        /\ KeyAt(obj, CallOut[j].at) = kFooBarHyphen
        /\ LastSeg(CallOut[j]) = Attr(kFooBarUnderscore)

-----------------------------------------------------------------------------
(* C16 *)

\* C16: a config node whose prolog (epilog) text is absent, None or empty,
\* while the matching hash is present makes the call fail: the call raises
\* at that node or at a node visited before it, an error raised at that
\* node is an assertion failure, and no line is printed for the node or for
\* anything beneath it, so the inconsistency is never skipped over.
HashWithoutTextFails ==
    pc # "ready" =>
        \A p \in Positions(obj) :
            NodeAt(obj, p).kind = "RasrConfig" /\ HashWithoutText(NodeAt(obj, p)) =>
                /\ pc = "raised"
                /\ err.at = p \/ Before(err.at, p)
                /\ err.at = p => err.exc = "AssertionError"
                /\ \A i \in 1..Len(CallOut) : ~IsPrefix(p, CallOut[i].at)

\* a node with prolog text and an epilog hash without epilog text: a keyword
\* argument was collected, yet the call fails there with nothing printed
HashWithoutTextWitness ==
    /\ pc = "raised"
    /\ err.exc = "AssertionError"
    /\ err.at = <<>>
    /\ TextPresent(obj.prolog)
    /\ ~TextPresent(obj.epilog)
    /\ TextPresent(obj.epilog_hash)
    /\ obj.value = PyNone
    /\ CallOut = <<>>

-----------------------------------------------------------------------------
(* C17 *)

\* the lines printed for the node at p itself
LinesAt(p) == { i \in 1..Len(CallOut) : CallOut[i].at = p }

BuiltinKinds == {"NoneType", "bool", "int", "float", "str"}

-----------------------------------------------------------------------------
(* C18 *)

\* a config node with no children, no own value, no prolog and no epilog
IsEmptyNode(node) ==
    /\ node.kind = "RasrConfig"
    /\ node.items = <<>>
    /\ node.value = PyNone
    /\ ~HasFragmentText(node)
    /\ ~HashWithoutText(node)

\* C18 as stated: an empty config node contributes no line, whether it is
\* the value given to dump_py_code, a bundle attribute, a mapping value or
\* the child of a config.
EmptyNodesSilent ==
    fn \in {"dump_py_code", "dump_crp", "_dump_crp_dict"} =>
        \A p \in Positions(obj) :
            IsEmptyNode(NodeAt(obj, p)) => LinesAt(p) = {}

\* C18, amended: an empty config node contributes no line only when it is
\* reached as the child of a config; as the value given to dump_py_code, as
\* a bundle attribute or as a mapping value it contributes exactly one
\* line, the bare constructor call `target = rasr.RasrConfig()`.
EmptyNodesSilentBelowConfig ==
    \A p \in Positions(obj) :
        IsEmptyNode(NodeAt(obj, p)) /\ VisitedWithoutError(p) =>
            IF ReachedFromConfig(p)
            THEN LinesAt(p) = {}
            ELSE \E i \in LinesAt(p) :
                     /\ LinesAt(p) = {i}
                     /\ Text(CallOut[i]) = Line(TargetOf(p), ConfigCall(<<>>))

\* an empty config held by a mapping attribute of a bundle has its
\* constructor line
EmptyNodesWitness ==
    /\ fn = "dump_py_code"
    /\ pc = "returned"
    /\ \E p \in Positions(obj) :
          /\ Len(p) = 2
          /\ IsEmptyNode(NodeAt(obj, p))
          /\ NodeAt(obj, Front(p)).kind = "dict"
          /\ LinesAt(p) # {}

-----------------------------------------------------------------------------
(* C19 *)

\* p is the position of an entry of a mapping
IsMappingEntry(p) == p # <<>> /\ NodeAt(obj, Front(p)).kind = "dict"

MappingEntries == { p \in Positions(obj) : IsMappingEntry(p) }

\* C19: the entries of a bundle's mapping attribute are handled in stored
\* order.  A config value is serialized under the dotted target
\* bundle.attr.key, as a node without a parent config; a primitive value
\* gets exactly one line `bundle.attr.key = <literal>`; any other value, a
\* nested bundle and a nested mapping included, makes the call fail: unless
\* the call failed earlier it fails at that entry with a TypeError naming
\* bundle.attr.key and the value's type, and nothing is printed for the
\* entry or after it.
MappingEntriesHandled ==
    pc # "ready" =>
        /\ \A p \in MappingEntries :
             LET v == NodeAt(obj, p)
             IN  CASE v.kind = "RasrConfig" ->
                        /\ \A i \in 1..Len(CallOut) :
                               IsPrefix(p, CallOut[i].at) =>
                                   IsPrefix(DottedPath(p), CallOut[i].lhs)
                        /\ VisitedWithoutError(p) /\ ~HasFragmentText(v) =>
                               \E i \in LinesAt(p) :
                                   /\ LinesAt(p) = {i}
                                   /\ Text(CallOut[i]) = Line(DottedPath(p), ConfigCall(<<>>))
                   [] v.kind \in _valid_primitive_types ->
                        VisitedWithoutError(p) =>
                            \E i \in LinesAt(p) :
                                /\ LinesAt(p) = {i}
                                /\ Text(CallOut[i]) = Line(DottedPath(p), Literal(py_repr(v)))
                   [] OTHER ->
                        /\ pc = "raised"
                        /\ err.at = p \/ Before(err.at, p)
                        /\ err.at = p =>
                               err = [exc |-> "TypeError", lhs |-> DottedPath(p),
                                      type |-> v.kind, at |-> p]
                        /\ \A i \in 1..Len(CallOut) : Before(CallOut[i].at, p)
        /\ \A i, j \in 1..Len(CallOut) :
             /\ i < j
             /\ IsMappingEntry(CallOut[i].at)
             /\ IsMappingEntry(CallOut[j].at)
             /\ Front(CallOut[i].at) = Front(CallOut[j].at)
             => CallOut[i].at[Len(CallOut[i].at)] <= CallOut[j].at[Len(CallOut[j].at)]

\* a bundle nested in a mapping attribute, after a primitive entry: the
\* first entry has its line, the second one raises
MappingEntriesWitness ==
    /\ pc = "raised"
    /\ Len(err.at) = 2
    /\ IsMappingEntry(err.at)
    /\ err.type = "CommonRasrParameters"
    /\ err.lhs = DottedPath(err.at)
    /\ \E i \in 1..Len(CallOut) :
          /\ CallOut[i].at = <<err.at[1], 1>>
          /\ CallOut[i].rhs = Literal("0.5")

-----------------------------------------------------------------------------
(* C20 *)

\* a config node at p whose own lines show with which parent_is_config it
\* was handled: one without prolog and epilog, reached by the call
PlainNodeReached(p) ==
    /\ NodeAt(obj, p).kind = "RasrConfig"
    /\ ~HasFragmentText(NodeAt(obj, p))
    /\ ~HashWithoutText(NodeAt(obj, p))
    /\ \/ pc = "returned"
       \/ pc = "raised" /\ (err.at = p \/ Before(p, err.at))

\* the node at p was handled with parent_is_config false: without an own
\* value it got the bare constructor line, with one it failed the assertion
HandledWithoutParent(p) ==
    IF NodeAt(obj, p).value = PyNone
    THEN \E i \in LinesAt(p) : CallOut[i].rhs = ConfigCall(<<>>)
    ELSE pc = "raised" /\ err.at = p /\ err.exc = "AssertionError" /\ LinesAt(p) = {}

\* the node at p was handled with parent_is_config true: without an own
\* value it got no line, with one it got the line of the value
HandledAsChild(p) ==
    IF NodeAt(obj, p).value = PyNone
    THEN LinesAt(p) = {}
    ELSE \E i \in LinesAt(p) : CallOut[i].rhs.form = "literal"

\* C20 as stated: in a run of dump_py_code only the node passed to it is
\* handled with parent_is_config false; every config node reached through
\* a bundle, a mapping or a parent config is handled with it true.
OnlyEntryWithoutParent ==
    fn = "dump_py_code" =>
        \A p \in Positions(obj) :
            PlainNodeReached(p) =>
                /\ HandledWithoutParent(p) => p = <<>>
                /\ p # <<>> => HandledAsChild(p)

\* C20, amended: a config node is handled with parent_is_config false when
\* it is the node passed to dump_py_code, a bundle attribute or a value of a
\* bundle's mapping attribute, and with parent_is_config true exactly when
\* it is reached as the child of a config.
WithoutParentUnlessConfigChild ==
    fn \in {"dump_py_code", "dump_crp", "_dump_crp_dict"} =>
        \A p \in Positions(obj) :
            PlainNodeReached(p) =>
                IF p # <<>> /\ NodeAt(obj, Front(p)).kind = "RasrConfig"
                THEN HandledAsChild(p) /\ ~HandledWithoutParent(p)
                ELSE HandledWithoutParent(p) /\ ~HandledAsChild(p)

\* in one run of dump_py_code on a bundle: a config attribute is handled
\* without a parent config
WithoutParentWitness ==
    /\ fn = "dump_py_code"
    /\ obj.kind = "CommonRasrParameters"
    /\ pc = "returned"
    /\ \E p \in Positions(obj) :
          /\ Len(p) = 1
          /\ PlainNodeReached(p)
          /\ NodeAt(obj, p).items # <<>>
          /\ HandledWithoutParent(p)

-----------------------------------------------------------------------------
(* C21 *)

\* p is the position of a child of a config node
IsConfigChild(p) == p # <<>> /\ NodeAt(obj, Front(p)).kind = "RasrConfig"

\* C21: a child of a config node that is itself a config and is visited
\* without error gets a constructor line if and only if it has prolog or
\* epilog text; a child that is not a config and is visited gets exactly
\* one line, `target = <literal>` on the dot or bracket target of its key.
ChildRecursion ==
    \A p \in Positions(obj) :
        IsConfigChild(p) /\ VisitedWithoutError(p) =>
            IF NodeAt(obj, p).kind = "RasrConfig"
            THEN (\E i \in LinesAt(p) : CallOut[i].rhs.form = "rasr.RasrConfig")
                 <=> HasFragmentText(NodeAt(obj, p))
            ELSE \E i \in LinesAt(p) :
                     /\ LinesAt(p) = {i}
                     /\ Text(CallOut[i]) =
                            Line(Append(TargetOf(Front(p)), ChildSegment(KeyAt(obj, p))),
                                 Literal(py_repr(NodeAt(obj, p))))

\* below one config: a child config with prolog text has its constructor
\* line, a scalar sibling has its one line
ChildRecursionWitness ==
    /\ pc = "returned"
    /\ \E p, q \in Positions(obj) :
          /\ IsConfigChild(p)
          /\ IsConfigChild(q)
          /\ Front(p) = Front(q)
          /\ NodeAt(obj, p) = PrologNode
          /\ \E i \in LinesAt(p) : CallOut[i].rhs.form = "rasr.RasrConfig"
          /\ NodeAt(obj, q) = PyFloat(5)
          /\ LinesAt(q) # {}

-----------------------------------------------------------------------------
(* dump_py_code run statement by statement.  A call is a stack of frames,   *)
(* one per active dump_crp / _dump_crp_dict / dump_rasr_config, each with   *)
(* the position of its loop; every print() appends one line to the file     *)
(* the call was given.  `visited` is a history field: the positions of the  *)
(* input nodes in the order the call reached them.                          *)

Frame(kind, node, lhs, at, parent_is_config) ==
    [kind |-> kind, node |-> node, lhs |-> lhs, at |-> at,
     parent_is_config |-> parent_is_config, n |-> 1, entered |-> FALSE]

\* the function that a value is handed to
FrameKind(v) ==
    CASE v.kind = "CommonRasrParameters" -> "dump_crp"
      [] v.kind = "dict" -> "_dump_crp_dict"
      [] v.kind = "RasrConfig" -> "dump_rasr_config"

\* the isinstance branches of the three loops that call a dump function
Recurses(f, v) ==
    CASE f.kind = "dump_crp" ->
           IsInstance(v, {"RasrConfig", "CommonRasrParameters", "dict"})
      [] f.kind = "_dump_crp_dict" -> IsInstance(v, {"RasrConfig"})
      [] f.kind = "dump_rasr_config" -> IsInstance(v, {"RasrConfig"})

\* the target of entry i of the frame's node
EntryLhs(f, i) ==
    IF f.kind = "dump_rasr_config"
    THEN SubLhs(f.lhs, f.node.items[i].k)
    ELSE DotLhs(f.lhs, f.node.items[i].k)

\* the frame of the call made for entry i
EntryFrame(f, i) ==
    Frame(FrameKind(f.node.items[i].v), f.node.items[i].v, EntryLhs(f, i),
          Append(f.at, i),
          IF f.kind = "dump_rasr_config" THEN TRUE ELSE HeldConfigParentIsConfig)

\* the last branches of the three loops: the entry is printed, or raises
EntryResult(f, i) ==
    IF f.kind = "dump_rasr_config"
    THEN Ok(<<Stmt(EntryLhs(f, i), Literal(py_repr(f.node.items[i].v)), Append(f.at, i))>>)
    ELSE PrimitiveOrRaise(EntryLhs(f, i), f.node.items[i].v, Append(f.at, i))

\* what a function does before its loop
EnterResult(f) ==
    CASE f.kind = "dump_crp" -> Ok(<<Stmt(DefaultLhs(f.lhs), CrpCall, f.at)>>)
      [] f.kind = "_dump_crp_dict" -> Ok(<<>>)
      [] f.kind = "dump_rasr_config" ->
           ConfigHead(f.lhs, f.node, f.parent_is_config, f.at)

\* (mutation of SinkOf: every call prints to the first file)
SinkOfFirst(c) == 1

\* the file= argument of call c
SinkOf(c) == calls[c].file

\* (mutation of NextRound: the loop does not move on)
NextRoundSame(n) == n

\* the loop moves on to its next entry
NextRound(n) == n + 1

\* the stack once the innermost function has returned
Returned(stack) == Front(stack)

Top(stack) == stack[Len(stack)]

\* print(..., file=file) of the lines by call c
Printed(c, lines) ==
    sinks' = [sinks EXCEPT ![SinkOf(c)] = @ \o [i \in 1..Len(lines) |-> [by |-> c, line |-> lines[i]]]]

\* call c goes on after a step gave r: with the stack given, or no further
GoOn(c, r, stack, reached) ==
    /\ Printed(c, r.out)
    /\ calls' = [calls EXCEPT
           ![c].stack = IF r.err = NoErr THEN stack ELSE <<>>,
           ![c].status = IF r.err # NoErr THEN "raised"
                         ELSE IF stack = <<>> THEN "returned" ELSE "running",
           ![c].err = r.err,
           ![c].visited = @ \o reached]

\* dump_py_code(obj, lhs="X", file=...) is called: lines 36-41
Begin(c) ==
    /\ calls[c].status = "ready"
    /\ IF IsInstance(calls[c].obj, {"CommonRasrParameters", "RasrConfig"})
       THEN GoOn(c, Ok(<<>>),
                 <<Frame(FrameKind(calls[c].obj), calls[c].obj, TargetX, <<>>, FALSE)>>,
                 <<>>)
       ELSE GoOn(c, Ok(<<Stmt(TargetX, Literal(py_repr(calls[c].obj)), <<>>)>>),
                 <<>>, <<<<>>>>)
    /\ UNCHANGED <<dumpVars, epochVars, recogVars>>

\* the innermost function runs up to its loop
Enter(c) ==
    /\ calls[c].status = "running"
    /\ ~Top(calls[c].stack).entered
    /\ LET f == Top(calls[c].stack)
       IN  GoOn(c, EnterResult(f),
                [calls[c].stack EXCEPT ![Len(calls[c].stack)].entered = TRUE],
                <<f.at>>)
    /\ UNCHANGED <<dumpVars, epochVars, recogVars>>

\* one round of the innermost loop
Round(c) ==
    /\ calls[c].status = "running"
    /\ Top(calls[c].stack).entered
    /\ Top(calls[c].stack).n <= Len(Top(calls[c].stack).node.items)
    /\ LET f == Top(calls[c].stack)
           i == IterOrder(f.node.items)[f.n]
           moved == [calls[c].stack EXCEPT ![Len(calls[c].stack)].n = NextRound(f.n)]
       IN  IF Recurses(f, f.node.items[i].v)
           THEN GoOn(c, Ok(<<>>), Append(moved, EntryFrame(f, i)), <<>>)
           ELSE GoOn(c, EntryResult(f, i), moved, <<Append(f.at, i)>>)
    /\ UNCHANGED <<dumpVars, epochVars, recogVars>>

\* the innermost loop is over: the function returns
Return(c) ==
    /\ calls[c].status = "running"
    /\ Top(calls[c].stack).entered
    /\ Top(calls[c].stack).n > Len(Top(calls[c].stack).node.items)
    /\ GoOn(c, Ok(<<>>), Returned(calls[c].stack), <<>>)
    /\ UNCHANGED <<dumpVars, epochVars, recogVars>>

StepNext ==
    \/ \E c \in DOMAIN calls : Begin(c)
    \/ \E c \in DOMAIN calls : Enter(c)
    \/ \E c \in DOMAIN calls : Round(c)
    \/ \E c \in DOMAIN calls : Return(c)

NewCall(o, file) ==
    [obj |-> o, file |-> file, stack |-> <<>>, status |-> "ready",
     err |-> NoErr, visited |-> <<>>]

\* the trees given to a single call
StepInputs == Crps \cup HeaderConfigs \cup {OrderConfig} \cup Primitives

\* one call, printing to one file
StepInit ==
    /\ calls \in { <<NewCall(o, 1)>> : o \in StepInputs }
    /\ sinks = << <<>> >>
    /\ DumpIdle
    /\ EpochIdle
    /\ RecogIdle

StepSpec == StepInit /\ [][StepNext]_vars

\* a call that can take a step takes it: the interpreter runs the thread
StepLive == StepSpec /\ WF_vars(StepNext)

\* the trees given to two calls at a time
PairInputs ==
    { PyInt(30), ScenarioBundleNoValue, ScenarioBundle, OrderConfig,
      CommonRasrParameters(<<Item(kA, PyInt(30)), Item(kB, PyObject("Custom"))>>),
      Plain(<<Item(kA, PyFloat(5)), Item(kFooBarHyphen, PrologNode)>>) }

\* two calls, each with its own file or both with the same one
PairInit ==
    /\ calls \in { <<NewCall(a, 1), NewCall(b, file)>> :
                     a \in PairInputs, b \in PairInputs, file \in {1, 2} }
    /\ sinks = << <<>>, <<>> >>
    /\ DumpIdle
    /\ EpochIdle
    /\ RecogIdle

PairSpec == PairInit /\ [][StepNext]_vars

-----------------------------------------------------------------------------
(* C22 *)

Max(S) == CHOOSE x \in S : \A y \in S : y <= x

\* how deep the containers of a tree are nested: 0 for a scalar
RECURSIVE NestingDepth(_)
NestingDepth(tree) ==
    IF tree.kind \in Containers
    THEN 1 + Max({0} \cup { NestingDepth(tree.items[i].v) : i \in 1..Len(tree.items) })
    ELSE 0

\* the lines that call c has printed so far
LinesBy(c) ==
    LET mine == SelectSeq(sinks[calls[c].file], LAMBDA s : s.by = c)
    IN  [i \in 1..Len(mine) |-> mine[i].line]

Ended(c) == calls[c].status \in {"returned", "raised"}

\* call c has never more functions active than the tree is deep, has reached
\* no node twice, and if it has ended it has either returned after reaching
\* every node and printing all their lines, or raised
BoundedWalk(c) ==
    /\ Len(calls[c].stack) <= NestingDepth(calls[c].obj)
    /\ \A i, j \in 1..Len(calls[c].visited) :
           calls[c].visited[i] = calls[c].visited[j] => i = j
    /\ calls[c].status = "returned" =>
           /\ calls[c].stack = <<>>
           /\ { calls[c].visited[i] : i \in 1..Len(calls[c].visited) } = Positions(calls[c].obj)
           /\ LinesBy(c) = dump_py_code(calls[c].obj, TargetX, <<>>).out
    /\ calls[c].status = "raised" =>
           /\ calls[c].err # NoErr
           /\ calls[c].err = dump_py_code(calls[c].obj, TargetX, <<>>).err
    /\ calls[c].status = "running" => calls[c].stack # <<>>

\* C22: every call of the serializer on a finite tree ends, by returning
\* after the lines of every node or by raising; on the way it reaches each
\* node at most once and never has more dump functions active than the
\* tree is deep.
Termination ==
    /\ [](\A c \in DOMAIN calls : BoundedWalk(c))
    /\ <>(\A c \in DOMAIN calls : Ended(c))

\* a call has returned from a tree nested three deep
TerminationWitness ==
    /\ calls # <<>>
    /\ calls[1].status = "returned"
    /\ NestingDepth(calls[1].obj) = 3
    /\ \E i \in 1..Len(calls[1].visited) : Len(calls[1].visited[i]) = 3

-----------------------------------------------------------------------------
(* C23 *)

\* what call c prints and raises when it runs alone
Alone(c) == dump_py_code(calls[c].obj, TargetX, <<>>)

\* C23: of two calls run interleaved, each prints its own lines in its own
\* order: what a call has printed so far is the beginning of what it prints
\* alone, and all of it once the call has ended, with the same outcome.  A
\* file given to one call only holds that call's lines and nothing else;
\* a file given to both holds the lines of both, each call's in its order.
CallsIsolated ==
    \A c \in DOMAIN calls :
        /\ Extends(LinesBy(c), Alone(c).out)
        /\ Ended(c) => LinesBy(c) = Alone(c).out /\ calls[c].err = Alone(c).err
        /\ \A i \in 1..Len(sinks[calls[c].file]) :
               calls[sinks[calls[c].file][i].by].file = calls[c].file
        /\ (\A d \in DOMAIN calls : d # c => calls[d].file # calls[c].file) =>
               [i \in 1..Len(sinks[calls[c].file]) |-> sinks[calls[c].file][i].line]
                   = LinesBy(c)

\* two calls on one file have ended, and a line of the second call stands
\* between two lines of the first
CallsInterleavedWitness ==
    /\ Len(calls) = 2
    /\ calls[1].file = calls[2].file
    /\ Ended(1)
    /\ Ended(2)
    /\ \E i, j, k \in 1..Len(sinks[1]) :
          /\ i < j
          /\ j < k
          /\ sinks[1][i].by = 1
          /\ sinks[1][j].by = 2
          /\ sinks[1][k].by = 1

-----------------------------------------------------------------------------
(* C24 *)

\* the scalar that a literal line was printed for: the own value of a
\* config node, or the node itself
ScalarAt(p) ==
    IF NodeAt(obj, p).kind = "RasrConfig" THEN NodeAt(obj, p).value ELSE NodeAt(obj, p)

\* C24: every line `target = <literal>` renders its scalar with py_repr,
\* wherever the scalar is held: as the value given to dump_py_code, as a
\* bundle attribute, as a mapping value, as a config child or as the own
\* value of a config node; a path object is rendered as its constructor
\* call in all of them.
OneLiteralFunction ==
    \A i \in 1..Len(CallOut) :
        CallOut[i].rhs.form = "literal" =>
            CallOut[i].rhs.text = py_repr(ScalarAt(CallOut[i].at))

\* the same, leaving out the own values of config nodes
OneLiteralFunctionButOwnValue ==
    \A i \in 1..Len(CallOut) :
        /\ CallOut[i].rhs.form = "literal"
        /\ NodeAt(obj, CallOut[i].at).kind # "RasrConfig"
        => CallOut[i].rhs.text = py_repr(ScalarAt(CallOut[i].at))

-----------------------------------------------------------------------------
(* C25 *)

\* own values that are not None but count as false in a condition
FalsyOwnValues == {PyInt(0), PyFloat(0), PyBool(FALSE), PyStr("")}

\* C25: an own value is present whenever it is not None: a config node
\* with the own value 0, 0.0, False or '' that needs no constructor call
\* and is visited without error gets its line `target = <literal>`, and one
\* that needs a constructor call makes the call fail as any own value
\* does.  A prolog or epilog text is present only when it is not empty: an
\* empty text gives no keyword argument, and alone it gives no constructor
\* call.
PresenceTests ==
    \A p \in Positions(obj) :
        LET node == NodeAt(obj, p)
        IN  node.kind = "RasrConfig" =>
            /\ node.value \in FalsyOwnValues /\ ~HashWithoutText(node) =>
                 IF HasFragmentText(node) \/ ~ReachedFromConfig(p)
                 THEN pc # "ready" =>
                        /\ pc = "raised"
                        /\ err.at = p \/ Before(err.at, p)
                        /\ err.at = p => err.exc = "AssertionError"
                        /\ LinesAt(p) = {}
                 ELSE VisitedWithoutError(p) =>
                        \E i \in LinesAt(p) :
                            /\ LinesAt(p) = {i}
                            /\ Text(CallOut[i]) =
                                   Line(TargetOf(p), Literal(py_repr(node.value)))
            /\ \A i \in LinesAt(p) :
                 /\ node.prolog = PyStr("") => ~HasKwarg(CallOut[i], "prolog")
                 /\ node.epilog = PyStr("") => ~HasKwarg(CallOut[i], "epilog")
            /\ /\ ~TextPresent(node.prolog)
               /\ ~TextPresent(node.epilog)
               /\ ReachedFromConfig(p)
               => \A i \in LinesAt(p) : CallOut[i].rhs.form # "rasr.RasrConfig"

\* a node with the own value '' and the prolog '' handed over as a config
\* child: the value line is printed, no constructor call
PresenceTestsWitness ==
    /\ pc = "returned"
    /\ obj.kind = "RasrConfig"
    /\ obj.value = PyStr("")
    /\ obj.prolog = PyStr("")
    /\ Len(CallOut) >= 1
    /\ Text(CallOut[1]) = Line(TargetX, Literal("''"))

-----------------------------------------------------------------------------
(* C26 *)

\* C26: no two lines bind the same target: in particular the lines of two
\* different children of one config node never have the same target, also
\* when the two keys differ only in hyphen versus underscore.
DistinctTargets ==
    \A i, j \in 1..Len(CallOut) :
        CallOut[i].lhs = CallOut[j].lhs => i = j

\* the same, for the trees in which no two sibling keys collide
DistinctTargetsUnlessColliding ==
    (\A p \in Positions(obj) : ~CollidingSiblings(p)) => DistinctTargets

-----------------------------------------------------------------------------
(* C27 *)

\* every `.name` segment of the line's target is a valid attribute name
DottedSegmentsValid(s) ==
    \A j \in 1..Len(s.lhs) :
        s.lhs[j].seg = "attr" => is_valid_python_attrib_name(s.lhs[j].k)

\* C27: in every printed line each `.name` appended to the caller's target
\* is a valid attribute name (a name that is not one is written as
\* `['name']`), for the keys of a bundle's mapping attribute as for the
\* child keys of a config.
TargetsWellFormed == \A i \in 1..Len(CallOut) : DottedSegmentsValid(CallOut[i])

\* the same, for the lines that are not printed below a mapping
TargetsWellFormedOutsideMappings ==
    \A i \in 1..Len(CallOut) :
        (\A j \in 1..Len(CallOut[i].at) :
             ~IsMappingEntry(SubSeq(CallOut[i].at, 1, j)))
        => DottedSegmentsValid(CallOut[i])

-----------------------------------------------------------------------------
(* C28 *)

\* the node at p is a bundle: the root, or an attribute of a bundle that is
\* itself one
RECURSIVE IsBundleAt(_)
IsBundleAt(p) ==
    /\ NodeAt(obj, p).kind = "CommonRasrParameters"
    /\ p # <<>> => IsBundleAt(Front(p))

\* C28: every bundle that the call reaches, the one it was given and every
\* bundle held as an attribute of a bundle, gets exactly one line
\* `target = rasr.CommonRasrParameters()`, the target being `crp` for a
\* dump_crp call without one, and that line precedes every line printed
\* for the bundle's attributes; no other node gets such a line.
OneConstructorPerBundle ==
    /\ \A p \in Positions(obj) :
         IsBundleAt(p) /\ VisitedWithoutError(p) =>
            \E i \in LinesAt(p) :
                /\ LinesAt(p) = {i}
                /\ Text(CallOut[i]) = Line(TargetOf(p), CrpCall)
                /\ p = <<>> /\ lhsArg = <<>> =>
                       CallOut[i].lhs = <<Name(<<"c", "r", "p">>)>>
                /\ \A j \in 1..Len(CallOut) :
                       Len(CallOut[j].at) > Len(p) /\ IsPrefix(p, CallOut[j].at) => i < j
    /\ \A i \in 1..Len(CallOut) :
         CallOut[i].rhs = CrpCall => IsBundleAt(CallOut[i].at)

\* dump_crp without a target on a bundle that holds a bundle: `crp = ...`
\* first, later the nested bundle's constructor line and then its attribute
OneConstructorWitness ==
    /\ fn = "dump_crp"
    /\ lhsArg = <<>>
    /\ pc # "ready"
    /\ \E i, j \in 1..Len(CallOut) :
          /\ 1 < i
          /\ j = i + 1
          /\ CallOut[1].rhs = CrpCall
          /\ CallOut[i].rhs = CrpCall
          /\ Len(CallOut[i].at) = 1
          /\ CallOut[j].at = Append(CallOut[i].at, 1)

-----------------------------------------------------------------------------
(* GetRelevantEpochsFromTrainingJob.run (users/zeyer/returnn/training.py).  *)
(* The learning-rate file maps every epoch to its scores; a score is a      *)
(* float given in tenths, or nan (the file is evaluated with one object     *)
(* `nan`, so every nan in it is that same object).                          *)

MaxEpochs == 3      \* epochs in the learning-rate file
MaxNBest == 2       \* largest n_best explored

Float(tenths) == [kind |-> "float", val |-> tenths]
NaN == [kind |-> "nan"]
NoEntry == [kind |-> "absent"]

kDevScore == <<"d", "e", "v", "_", "s">>
kDevError == <<"d", "e", "v", "_", "e">>
kTrainScore == <<"t", "r", "a", "i", "n", "_", "s">>
ScoreKeys == {kDevScore, kDevError, kTrainScore}

\* score_key.startswith("dev_")
StartsWithDev(key) == Len(key) >= 4 /\ SubSeq(key, 1, 4) = <<"d", "e", "v", "_">>

\* a < b and a == b on floats: both are false when nan is involved
FloatLt(a, b) == a.kind = "float" /\ b.kind = "float" /\ a.val < b.val
FloatEq(a, b) == a.kind = "float" /\ b.kind = "float" /\ a.val = b.val

\* the comparison of items inside a tuple comparison: the same object, or ==
SameOrEq(a, b) == a = b

\* (score, epoch) tuples: < decides on the first item that differs
TupleLt(x, y) == IF SameOrEq(x[1], y[1]) THEN x[2] < y[2] ELSE FloatLt(x[1], y[1])

Reverse(s) == [i \in 1..Len(s) |-> s[Len(s) - i + 1]]

\* list.sort, first step: the length of the run the list begins with, a run
\* being ascending (no item less than the one before it) or strictly
\* descending
RECURSIVE RunEnd(_, _, _)
RunEnd(s, n, descending) ==
    IF n = Len(s) THEN n
    ELSE IF descending = TupleLt(s[n + 1], s[n]) THEN RunEnd(s, n + 1, descending)
    ELSE n

\* list.sort, binary insertion: where pivot goes among a[l..r-1]
RECURSIVE Bisect(_, _, _, _)
Bisect(a, pivot, l, r) ==
    IF l >= r THEN l
    ELSE LET p == l + ((r - l) \div 2)
         IN  IF TupleLt(pivot, a[p])
             THEN Bisect(a, pivot, l, p)
             ELSE Bisect(a, pivot, p + 1, r)

InsertAt(a, l, pivot) == SubSeq(a, 1, l - 1) \o <<pivot>> \o SubSeq(a, l, Len(a))

\* list.sort, second step: the items behind the sorted part a are inserted
\* one by one
RECURSIVE BinarySort(_, _)
BinarySort(a, rest) ==
    IF rest = <<>> THEN a
    ELSE BinarySort(InsertAt(a, Bisect(a, Head(rest), 1, Len(a) + 1), Head(rest)),
                    Tail(rest))

\* sorted(s) for a list of fewer than 64 tuples
Sorted(s) ==
    IF Len(s) < 2 THEN s
    ELSE LET descending == TupleLt(s[2], s[1])
             n == RunEnd(s, 2, descending)
             run == IF descending THEN Reverse(SubSeq(s, 1, n)) ELSE SubSeq(s, 1, n)
         IN  BinarySort(run, SubSeq(s, n + 1, Len(s)))

\* score_keys: every key of every epoch
score_keys(sc) == { k \in ScoreKeys : \E ep \in DOMAIN sc : sc[ep][k] # NoEntry }

\* all_epochs = sorted(scores.keys())
all_epochs(sc) == [i \in 1..Len(sc) |-> i]

\* [(float(scores[ep][score_key]), int(ep)) for ep in all_epochs if score_key in scores[ep]]
ScorePairs(sc, key) ==
    LET eps == SelectSeq(all_epochs(sc), LAMBDA ep : sc[ep][key] # NoEntry)
    IN  [i \in 1..Len(eps) |-> <<sc[eps[i]][key], eps[i]>>]

\* s[:n]
Take(s, n) == SubSeq(s, 1, IF n < Len(s) THEN n ELSE Len(s))

\* the epochs that one score key suggests: none if the key is skipped
SuggestedBy(sc, key, n) ==
    LET dev_scores == Sorted(ScorePairs(sc, key))
        best == Take(Sorted(dev_scores), n)
    IN  IF ~StartsWithDev(key) THEN {}
        ELSE IF FloatEq(dev_scores[1][1], dev_scores[Len(dev_scores)][1]) THEN {}
        ELSE IF dev_scores[1] = <<Float(0), 1>> THEN {}
        ELSE { best[i][2] : i \in 1..Len(best) }

suggested_epochs(sc, n) == UNION { SuggestedBy(sc, key, n) : key \in score_keys(sc) }

\* self._chkpt_exists(ep)
_chkpt_exists(ep) == ep \in chkpts

\* sorted(suggested_epochs), a list of ints
RECURSIVE SortedInts(_)
SortedInts(S) ==
    IF S = {} THEN <<>>
    ELSE LET m == CHOOSE x \in S : \A y \in S : x <= y
         IN  <<m>> \o SortedInts(S \ {m})

NotWritten == [written |-> FALSE, epochs |-> <<>>]
Written(eps) == [written |-> TRUE, epochs |-> eps]

\* run()
Run ==
    /\ jobpc = "ready"
    /\ LET suggested == suggested_epochs(scores, n_best)
           kept == { ep \in suggested : _chkpt_exists(ep) }
       IN  IF suggested = {} \/ kept = {}
           THEN jobpc' = "failed" /\ output' = output
           ELSE jobpc' = "done" /\ output' = Written(SortedInts(kept))
    /\ UNCHANGED <<scores, n_best, chkpts>>
    /\ UNCHANGED <<dumpVars, stepVars, recogVars>>

\* the scores of one epoch: dev_s and dev_e as given, train_s falling with
\* the epoch
EpochData(s, e, ep) ==
    [k \in ScoreKeys |->
        IF k = kDevScore THEN s ELSE IF k = kDevError THEN e ELSE Float(10 - ep)]

DevScoreValues == {NoEntry, NaN, Float(0), Float(5), Float(10)}
DevErrorValues == {NoEntry, Float(0), Float(5)}

ScoreFiles ==
    { [ep \in 1..MaxEpochs |-> EpochData(s[ep], e[ep], ep)] :
        s \in [1..MaxEpochs -> DevScoreValues], e \in [1..MaxEpochs -> DevErrorValues] }

CheckpointSets == { 1..MaxEpochs, {}, {1}, (1..MaxEpochs) \ {1} }

EpochInit ==
    /\ scores \in ScoreFiles
    /\ n_best \in 1..MaxNBest
    /\ chkpts \in CheckpointSets
    /\ output = NotWritten
    /\ jobpc = "ready"
    /\ DumpIdle
    /\ StepIdle
    /\ RecogIdle

EpochNext == Run

EpochSpec == EpochInit /\ [][EpochNext]_vars

-----------------------------------------------------------------------------
(* C29: the epochs GetRelevantEpochsFromTrainingJob writes                   *)

HasScore(key, ep) == scores[ep][key] # NoEntry

\* the pair (score, epoch) of e2 is lower than that of ep
PairLower(key, e2, ep) ==
    \/ FloatLt(scores[e2][key], scores[ep][key])
    \/ FloatEq(scores[e2][key], scores[ep][key]) /\ e2 < ep

AmongLowest(key, ep) ==
    /\ HasScore(key, ep)
    /\ Cardinality({ e2 \in DOMAIN scores : HasScore(key, e2) /\ PairLower(key, e2, ep) }) < n_best

SameInAllEpochs(key) ==
    \A e1, e2 \in DOMAIN scores :
        HasScore(key, e1) /\ HasScore(key, e2) => scores[e1][key] = scores[e2][key]

LowestIsZeroAtOne(key) ==
    /\ scores[1][key] = Float(0)
    /\ \A ep \in DOMAIN scores : HasScore(key, ep) => ~FloatLt(scores[ep][key], Float(0))

QualifyingKey(key) ==
    /\ StartsWithDev(key)
    /\ ~SameInAllEpochs(key)
    /\ ~LowestIsZeroAtOne(key)

QualifyingEpoch(ep) ==
    /\ ep \in chkpts
    /\ \E key \in ScoreKeys : QualifyingKey(key) /\ AmongLowest(key, ep)

HasNaN == \E ep \in DOMAIN scores : \E key \in ScoreKeys : scores[ep][key] = NaN

WrittenEpochsRelevant ==
    LET eps == output.epochs
    IN  /\ eps # <<>>
        /\ \A i \in 1..(Len(eps) - 1) : eps[i] < eps[i + 1]
        /\ \A i \in 1..Len(eps) : QualifyingEpoch(eps[i])

\* C29: whenever run() writes its output, the written list is non-empty,
\* strictly ascending, holds only epochs whose checkpoint exists, each among
\* the n_best lowest-scoring epochs of a "dev_" key that is not the same in
\* all epochs and whose lowest pair is not (0.0, 1); when no epoch qualifies
\* the job fails and writes nothing.
RelevantEpochs ==
    /\ output.written => WrittenEpochsRelevant
    /\ jobpc = "failed" => ~output.written
    /\ jobpc # "ready" /\ (\A ep \in DOMAIN scores : ~QualifyingEpoch(ep)) => jobpc = "failed"

\* the same statement for learning-rate files without nan
RelevantEpochsOfNumbers == HasNaN \/ RelevantEpochs

RelevantEpochsOfNumbersWitness ==
    /\ ~HasNaN
    /\ output.written
    /\ Len(output.epochs) = 2
    /\ output.epochs[1] # 1
    /\ chkpts # 1..MaxEpochs

-----------------------------------------------------------------------------
(* FHDecoder.recognize_count_lm (users/gunz/setups/fh/decoder/search.py),   *)
(* statement by statement as far as its calls of itself, its asserts and    *)
(* its search jobs are concerned.                                           *)

RecursionLimit == 4     \* frames the interpreter allows (scaled down)

\* search_parameters: the fields the method tests
SearchParameters(altas, beam, tdp_speech, silence_penalties, lm_scale) ==
    [altas |-> altas, beam |-> beam, tdp_speech |-> tdp_speech,
     silence_penalties |-> silence_penalties, lm_scale |-> lm_scale]

AltasNone == [kind |-> "NoneType"]
AltasValues == {AltasNone, [kind |-> "float", val |-> 2]}
BeamValues == {14, 15}
TdpLengths == {3, 4}
PenaltyLengths == {0, 1, 2}

\* every search_parameters with the given lm_scale
ParametersWithLmScale(lm_scale) ==
    { SearchParameters(a, b, t, s, lm_scale) :
        a \in AltasValues, b \in BeamValues, t \in TdpLengths, s \in PenaltyLengths }

\* the keyword arguments the method tests
RecogArgs(sp, opt_lm_am, rerun_after_opt_lm, calculate_stats) ==
    [search_parameters |-> sp, opt_lm_am |-> opt_lm_am,
     rerun_after_opt_lm |-> rerun_after_opt_lm, calculate_stats |-> calculate_stats]

RecogFrame(args) == [args |-> args, at |-> "pending"]

\* lines 671-680
AssertsHold(sp) ==
    /\ sp.tdp_speech = 4
    /\ sp.silence_penalties = 0 \/ sp.silence_penalties = 2

\* line 891
Optimizes(args) == args.opt_lm_am /\ args.search_parameters.altas = AltasNone

\* line 892
BeamWideEnough(sp) == sp.beam >= 15

\* (mutation of NestedOptLmAm: the nested call inherits the argument)
NestedOptLmAmInherited(args) == args.opt_lm_am

\* line 915: opt_lm_am of the nested call
NestedOptLmAm(args) == FALSE

\* lines 911-912: Delayed(opt.out_best_lm_score).function(round2), a value
\* known only when the jobs have run
RoundedLmScale == "rounded"

\* lines 914-927: the arguments of the nested call; with_lm_scale is defined
\* outside this file, so the parameters it returns are any parameters with
\* the new lm_scale
NestedArgs(args) ==
    { RecogArgs(sp, NestedOptLmAm(args), args.rerun_after_opt_lm, args.calculate_stats) :
        sp \in ParametersWithLmScale(RoundedLmScale) }

RTop == rstack[Len(rstack)]
RSetTop(f) == [rstack EXCEPT ![Len(rstack)] = f]
RAt(where) == rpc = "running" /\ rstack # <<>> /\ RTop.at = where
RRaise == rstack' = <<>> /\ rpc' = "raised"

\* the method is entered; beyond the interpreter's limit the call raises
\* RecursionError
Invoke ==
    /\ rpc \in {"ready", "running"}
    /\ rstack # <<>>
    /\ RTop.at = "pending"
    /\ IF Len(rstack) > RecursionLimit
       THEN RRaise /\ ncalls' = ncalls
       ELSE /\ rstack' = RSetTop([RTop EXCEPT !.at = "asserts"])
            /\ rpc' = "running"
            /\ ncalls' = ncalls + 1
    /\ UNCHANGED searchJobs
    /\ UNCHANGED <<dumpVars, stepVars, epochVars>>

\* lines 671-680
Asserts ==
    /\ RAt("asserts")
    /\ IF AssertsHold(RTop.args.search_parameters)
       THEN rstack' = RSetTop([RTop EXCEPT !.at = "search"]) /\ rpc' = rpc
       ELSE RRaise
    /\ UNCHANGED <<ncalls, searchJobs>>
    /\ UNCHANGED <<dumpVars, stepVars, epochVars>>

\* lines 682-889: the search job and the jobs that score it
Search ==
    /\ RAt("search")
    /\ searchJobs' = searchJobs + 1
    /\ rstack' = RSetTop([RTop EXCEPT !.at = "optimize"])
    /\ UNCHANGED <<ncalls, rpc>>
    /\ UNCHANGED <<dumpVars, stepVars, epochVars>>

\* lines 891-927
Optimize ==
    /\ RAt("optimize")
    /\ LET args == RTop.args
       IN  IF ~Optimizes(args)
           THEN rstack' = RSetTop([RTop EXCEPT !.at = "return"]) /\ rpc' = rpc
           ELSE IF ~BeamWideEnough(args.search_parameters)
           THEN RRaise
           ELSE IF ~args.rerun_after_opt_lm
           THEN rstack' = RSetTop([RTop EXCEPT !.at = "return"]) /\ rpc' = rpc
           ELSE /\ \E nested \in NestedArgs(args) :
                    rstack' = Append(RSetTop([RTop EXCEPT !.at = "nested"]), RecogFrame(nested))
                /\ rpc' = rpc
    /\ UNCHANGED <<ncalls, searchJobs>>
    /\ UNCHANGED <<dumpVars, stepVars, epochVars>>

\* lines 929-931, and line 914 for the caller of a nested call
RecogReturn ==
    /\ RAt("return")
    /\ LET below == Front(rstack)
       IN  IF below = <<>>
           THEN rstack' = <<>> /\ rpc' = "returned"
           ELSE /\ rstack' = [below EXCEPT ![Len(below)] = [below[Len(below)] EXCEPT !.at = "return"]]
                /\ rpc' = rpc
    /\ UNCHANGED <<ncalls, searchJobs>>
    /\ UNCHANGED <<dumpVars, stepVars, epochVars>>

RecogNext ==
    \/ Invoke
    \/ Asserts
    \/ Search
    \/ Optimize
    \/ RecogReturn

RecogInit ==
    /\ \E sp \in ParametersWithLmScale("given") : \E o, r, c \in BOOLEAN :
           rstack = <<RecogFrame(RecogArgs(sp, o, r, c))>>
    /\ ncalls = 0
    /\ searchJobs = 0
    /\ rpc = "ready"
    /\ DumpIdle
    /\ StepIdle
    /\ EpochIdle

RecogSpec == RecogInit /\ [][RecogNext]_vars

\* the interpreter runs the method to its end: a step that can be taken is
\* taken
RecogLive == RecogSpec /\ WF_vars(RecogNext)

-----------------------------------------------------------------------------
(* C30: the re-run of recognize_count_lm is bounded                          *)

RecogEnded == rpc \in {"returned", "raised"}

NestedOnlyAfterOptimizing ==
    \A i \in 2..Len(rstack) :
        /\ Optimizes(rstack[i - 1].args)
        /\ rstack[i - 1].args.rerun_after_opt_lm
        /\ ~rstack[i].args.opt_lm_am

\* C30: for every argument combination the method calls itself at most once,
\* only when opt_lm_am and rerun_after_opt_lm are true and altas is None; the
\* nested call runs with opt_lm_am = False; the method always ends and at
\* most two search jobs are created.
RerunBounded ==
    /\ [](/\ Len(rstack) <= 2
          /\ ncalls <= 2
          /\ searchJobs <= 2
          /\ NestedOnlyAfterOptimizing)
    /\ <>RecogEnded

RerunBoundedWitness ==
    /\ rpc = "returned"
    /\ ncalls = 2
    /\ searchJobs = 2

====
